---- MODULE Spec2Model ----
(***************************************************************************)
(* Flight-delay aggregation pipeline (aggregation.py) and the dashboards'  *)
(* dataset loaders (Home.py, viznew.py, pages/time-series.py).             *)
(*                                                                         *)
(* Cell values are tagged tuples so that values of different kinds can be  *)
(* compared: <<"null">> is NaN/NaT/None, <<"num", n, d>> the number n/d in *)
(* lowest terms, <<"str", s>> a string, <<"date", s>> a parsed calendar    *)
(* date and <<"period", s>> a monthly period, both written by their ISO    *)
(* text.  A table (DataFrame) is [cols, rows]: the column names and the    *)
(* rows, each row a tuple of cell values in column order.                  *)
(***************************************************************************)
EXTENDS Integers, Sequences, FiniteSets, TLC

VARIABLES
    build,      \* the installed pandas: does read_csv treat "None" as NA
    raw,        \* the raw yearly record set process_yearly_data read last, and how many it read
    mat,        \* the batch aggregation process (aggregation.py)
    files,      \* <<year, view>> -> <<the stored CSV file>>, or <<>> when there is none
    cache,      \* st.cache_data entries of load_yearly_data: key -> <<table>> or <<>>
    lock,       \* keys whose compute lock is held
    run,        \* script runs of the dashboard pages
    loads,      \* key -> number of read_csv calls made by load_yearly_data
    reads,      \* key -> number of read_csv calls made by time-series load_data
    hist,       \* history: the tables each key's requests returned, and how
    batch,      \* the batch script: its input directory, the files left to visit, how it ended
    dirs,       \* the years whose output directory exists
    proxy       \* the Flask proxy (api/streamlit.py): marker file, launches, requests

vars == <<build, raw, mat, files, cache, lock, run, loads, reads, hist, batch, dirs, proxy>>

----------------------------------------------------------------------------
(* Bounds *)

MaxRows == 3        \* rows of one raw yearly file
NumYears == 2       \* years modelled, from FirstYear on
NumViews == 2       \* views the modelled script runs load (a prefix of the catalogue)
NumRuns == 2        \* dashboard script runs in one process
MaxMatRuns == 2     \* runs of process_yearly_data
MaxBatchRuns == 2   \* runs of the batch script over one input directory
NumRequests == 3    \* requests the proxy handles

FirstYear == 2009

Years == FirstYear .. (FirstYear + NumYears - 1)

----------------------------------------------------------------------------
(* Cell values *)

Null == <<"null">>
Str(s) == <<"str", s>>
Date(s) == <<"date", s>>
Period(s) == <<"period", s>>

IsNull(v) == v[1] = "null"
IsNum(v) == v[1] = "num"

Abs(n) == IF n < 0 THEN -n ELSE n

RECURSIVE GCD(_, _)
GCD(a, b) == IF b = 0 THEN a ELSE GCD(b, a % b)

\* The number n/d (d # 0) in lowest terms with a positive denominator.
Frac(n, d) ==
    LET g == GCD(Abs(n), Abs(d))
        s == IF d < 0 THEN -1 ELSE 1
    IN  <<"num", (s * n) \div g, (s * d) \div g>>

Num(n) == <<"num", n, 1>>

NumLess(a, b) == a[2] * b[3] < b[2] * a[3]

----------------------------------------------------------------------------
(* Small sequence helpers *)

RECURSIVE SetToSeq(_)
SetToSeq(S) ==
    IF S = {} THEN <<>>
    ELSE LET x == CHOOSE y \in S : TRUE IN <<x>> \o SetToSeq(S \ {x})

RECURSIVE IndexOf(_, _, _)
IndexOf(seq, x, i) ==
    IF i > Len(seq) THEN 0
    ELSE IF seq[i] = x THEN i ELSE IndexOf(seq, x, i + 1)

\* Byte order of the strings the model uses (Python compares str by code point).
Collation ==
    << "2009-01", "2009-01-15", "2009-01-16", "2009-02", "2009-02-01",
       "A", "AA", "B", "CA", "DL", "JFK", "LAX", "LGA", "NY", "None", "ZZZ" >>

StrRank(s) == IndexOf(Collation, s, 1)

\* Order of two non-null cells of one column.
ValLess(a, b) ==
    IF IsNum(a) THEN NumLess(a, b) ELSE StrRank(a[2]) < StrRank(b[2])

\* Lexicographic order of two key tuples of the same columns.
RECURSIVE KeyLessFrom(_, _, _)
KeyLessFrom(a, b, i) ==
    IF i > Len(a) THEN FALSE
    ELSE IF a[i] = b[i] THEN KeyLessFrom(a, b, i + 1)
    ELSE ValLess(a[i], b[i])

KeyLess(a, b) == KeyLessFrom(a, b, 1)

(* Row orders.  <<"asc", n>>: ascending on the first n columns, as groupby   *)
(* (sort=True) orders its group keys.  <<"desc", c>>: descending on column  *)
(* c with NaN last, as sort_values(ascending=False) does.                   *)
RowBefore(mode, x, y) ==
    IF mode[1] = "asc" THEN KeyLess(SubSeq(x, 1, mode[2]), SubSeq(y, 1, mode[2]))
    ELSE /\ ~IsNull(x[mode[2]])
         /\ IsNull(y[mode[2]]) \/ ValLess(y[mode[2]], x[mode[2]])

\* Insert x into the sorted sequence s after every element it is not before:
\* repeated insertion is a stable sort.
RECURSIVE InsertSorted(_, _, _)
InsertSorted(s, x, mode) ==
    IF s = <<>> THEN <<x>>
    ELSE IF RowBefore(mode, x, Head(s)) THEN <<x>> \o s
    ELSE <<Head(s)>> \o InsertSorted(Tail(s), x, mode)

RECURSIVE StableSort(_, _)
StableSort(s, mode) ==
    IF s = <<>> THEN <<>>
    ELSE InsertSorted(StableSort(SubSeq(s, 1, Len(s) - 1), mode), s[Len(s)], mode)


----------------------------------------------------------------------------
(* aggregation.py: module-level state *)

\* fill_values (aggregation.py:9-18)
\* Mutant: the cancellation code has no default, a missing reason stays NaN.
fill_values_delays_only ==
    [ CARRIER_DELAY       |-> Num(0),
      WEATHER_DELAY       |-> Num(0),
      NAS_DELAY           |-> Num(0),
      SECURITY_DELAY      |-> Num(0),
      LATE_AIRCRAFT_DELAY |-> Num(0),
      TAXI_IN             |-> Num(0),
      TAXI_OUT            |-> Num(0) ]

fill_values ==
    [ CANCELLATION_CODE   |-> Str("None"),
      CARRIER_DELAY       |-> Num(0),
      WEATHER_DELAY       |-> Num(0),
      NAS_DELAY           |-> Num(0),
      SECURITY_DELAY      |-> Num(0),
      LATE_AIRCRAFT_DELAY |-> Num(0),
      TAXI_IN             |-> Num(0),
      TAXI_OUT            |-> Num(0) ]

\* airports = pd.read_csv(airports_file)[['IATA','STATE','LATITUDE','LONGITUDE']]
\* (aggregation.py:21-23): the reference catalogue, here three airports.
Airport(iata, state, lat, lon) ==
    ("IATA" :> iata) @@ ("STATE" :> state) @@ ("LATITUDE" :> lat) @@ ("LONGITUDE" :> lon)

airports ==
    << Airport(Str("JFK"), Str("NY"), Num(41), Num(-74)),
       Airport(Str("LAX"), Str("CA"), Num(34), Num(-118)),
       Airport(Str("LGA"), Str("NY"), Num(41), Num(-73)) >>

\* airports_dict[col] used as the argument of Series.map (aggregation.py:24, 40-43):
\* the column's value for the airport whose IATA is the code, NaN when none matches.
airports_dict(col, code) ==
    LET hit == {i \in DOMAIN airports : airports[i]["IATA"] = code}
    IN  IF hit = {} THEN Null ELSE airports[CHOOSE i \in hit : TRUE][col]

----------------------------------------------------------------------------
(* Raw yearly record sets *)

RawRow(date, carrier, origin, dest, crs, dist, dep, arr, canc, code, cause, tin, tout) ==
    [ FL_DATE |-> date, OP_CARRIER |-> carrier, ORIGIN |-> origin, DEST |-> dest,
      CRS_DEP_TIME |-> crs, DISTANCE |-> dist, DEP_DELAY |-> dep, ARR_DELAY |-> arr,
      CANCELLED |-> canc, CANCELLATION_CODE |-> code,
      CARRIER_DELAY |-> cause, WEATHER_DELAY |-> Null, NAS_DELAY |-> cause,
      SECURITY_DELAY |-> Null, LATE_AIRCRAFT_DELAY |-> Null,
      TAXI_IN |-> tin, TAXI_OUT |-> tout ]

\* The rows a raw file is made of: flown and cancelled flights of two carriers,
\* early and late arrivals, absent delays, an absent distance, airport codes
\* missing from the reference ("ZZZ") and an out-of-range departure time (2400).
RowPool ==
    << RawRow(Str("2009-01-15"), Str("AA"), Str("JFK"), Str("LAX"), Num(1347), Num(2475),
              Num(5), Num(10), Num(0), Null, Null, Num(8), Num(20)),
       RawRow(Str("2009-01-16"), Str("AA"), Str("JFK"), Str("LAX"), Num(1347), Num(2475),
              Num(-5), Num(20), Num(0), Null, Num(10), Num(9), Num(15)),
       RawRow(Str("2009-01-16"), Str("AA"), Str("JFK"), Str("LAX"), Num(1800), Num(2475),
              Null, Null, Num(1), Str("B"), Null, Null, Null),
       RawRow(Str("2009-02-01"), Str("DL"), Str("ZZZ"), Str("LAX"), Num(2400), Num(300),
              Num(-3), Num(-30), Num(0), Null, Null, Num(4), Num(11)),
       RawRow(Str("2009-02-01"), Str("DL"), Str("LAX"), Str("JFK"), Num(1347), Num(2475),
              Null, Null, Num(1), Str("A"), Null, Null, Null),
       RawRow(Str("2009-01-15"), Str("AA"), Str("LGA"), Str("ZZZ"), Num(600), Num(300),
              Num(0), Num(-20), Num(0), Null, Num(20), Null, Num(12)),
       RawRow(Str("2009-01-15"), Str("DL"), Str("JFK"), Str("LAX"), Num(1347), Null,
              Num(7), Num(10), Num(0), Null, Null, Num(8), Num(20)) >>

RECURSIVE SeqsUpTo(_, _)
SeqsUpTo(S, n) ==
    IF n = 0 THEN {<<>>}
    ELSE LET shorter == SeqsUpTo(S, n - 1)
         IN  shorter \cup {Append(s, x) : s \in {t \in shorter : Len(t) = n - 1}, x \in S}

\* Every raw file of at most MaxRows rows.
RawFiles == SeqsUpTo({RowPool[i] : i \in DOMAIN RowPool}, MaxRows)

----------------------------------------------------------------------------
(* Schema normalisation (aggregation.py:29-43) *)

\* Mutant: every missing field is filled, the listed ones with their default
\* and any other with 0.
fillna_every_field(row) ==
    [f \in DOMAIN row |->
        IF ~IsNull(row[f]) THEN row[f]
        ELSE IF f \in DOMAIN fill_values THEN fill_values[f] ELSE Num(0)]

\* data.fillna(fill_values, inplace=True) on one row (aggregation.py:32)
fillna(row) ==
    [f \in DOMAIN row |->
        IF f \in DOMAIN fill_values /\ IsNull(row[f]) THEN fill_values[f] ELSE row[f]]

\* pd.to_datetime on one cell (aggregation.py:35)
to_datetime(v) == IF IsNull(v) THEN Null ELSE Date(v[2])

\* .dt.to_period('M') on one cell (aggregation.py:36): the date cut to its month.
to_period_M(v) ==
    IF IsNull(v) THEN Null
    ELSE Period(CASE v[2] = "2009-01-15" -> "2009-01"
                  [] v[2] = "2009-01-16" -> "2009-01"
                  [] v[2] = "2009-02-01" -> "2009-02")

\* Mutant: the hour is brought into the range of a day.
Hour_of_day(v) == IF IsNull(v) THEN Null ELSE Num((v[2] \div 100) % 24)

\* data['CRS_DEP_TIME'] // 100 on one cell (aggregation.py:37): floor division.
Hour(v) == IF IsNull(v) THEN Null ELSE Num(v[2] \div 100)

\* One row through lines 32-43.
NormalizeRow(row) ==
    LET r == fillna(row)
        d == to_datetime(r.FL_DATE)
    IN  [f \in DOMAIN r \cup {"Month", "Hour", "ORIGIN_STATE", "DEST_STATE", "LATITUDE", "LONGITUDE"} |->
            CASE f = "FL_DATE"      -> d
              [] f = "Month"        -> to_period_M(d)
              [] f = "Hour"         -> Hour(r.CRS_DEP_TIME)
              [] f = "ORIGIN_STATE" -> airports_dict("STATE", r.ORIGIN)
              [] f = "DEST_STATE"   -> airports_dict("STATE", r.DEST)
              [] f = "LATITUDE"     -> airports_dict("LATITUDE", r.ORIGIN)
              [] f = "LONGITUDE"    -> airports_dict("LONGITUDE", r.ORIGIN)
              [] OTHER              -> r[f]]

\* Mutant: the reference join done as an inner join, which keeps only the rows
\* whose origin and destination are both in the catalogue.
Normalize_inner_join(data) ==
    LET all == [i \in DOMAIN data |-> NormalizeRow(data[i])]
    IN  SelectSeq(all, LAMBDA r : ~IsNull(r.ORIGIN_STATE) /\ ~IsNull(r.DEST_STATE))

\* Lines 32-43 on the whole frame: every step is column-wise, row for row.
Normalize(data) == [i \in DOMAIN data |-> NormalizeRow(data[i])]

----------------------------------------------------------------------------
(* pandas reductions used by process_yearly_data *)

Table(cols, rows) == [cols |-> cols, rows |-> rows]

KeyOf(r, by) == [i \in 1 .. Len(by) |-> r[by[i]]]

HasNull(k) == \E i \in DOMAIN k : IsNull(k[i])

\* Mutant: the groupers behave as categoricals with observed=False, so every
\* combination of the values seen in the key columns is a group.
GroupKeys_every_combination(data, by) ==
    LET seen(c) == {v \in {data[i][by[c]] : i \in DOMAIN data} : ~IsNull(v)}
        all == UNION {seen(c) : c \in 1 .. Len(by)}
        combos == {k \in [1 .. Len(by) -> all] : \A c \in 1 .. Len(by) : k[c] \in seen(c)}
    IN  StableSort(SetToSeq(combos), <<"asc", Len(by)>>)

\* The group keys of data.groupby(by): sort=True, dropna=True, so the distinct
\* key tuples in ascending order, without the rows that have NaN in a key column.
GroupKeys(data, by) ==
    StableSort(SetToSeq({k \in {KeyOf(data[i], by) : i \in DOMAIN data} : ~HasNull(k)}),
               <<"asc", Len(by)>>)

GroupOf(data, by, k) == SelectSeq(data, LAMBDA r : KeyOf(r, by) = k)

Column(data, col) == [i \in DOMAIN data |-> data[i][col]]

NumAdd(a, b) == Frac(a[2] * b[3] + b[2] * a[3], a[3] * b[3])

RECURSIVE NumSum(_)
NumSum(vals) == IF vals = <<>> THEN Num(0) ELSE NumAdd(Head(vals), NumSum(Tail(vals)))

\* Mutant: a NaN cell counts as zero.
mean_nan_as_zero(vals) ==
    LET present == SelectSeq(vals, LAMBDA v : ~IsNull(v))
        total == NumSum(present)
    IN  IF vals = <<>> THEN Null ELSE Frac(total[2], total[3] * Len(vals))

\* Series.mean() with skipna=True: NaN cells are left out of the sum and the
\* count; a series without values has mean NaN.
mean(vals) ==
    LET present == SelectSeq(vals, LAMBDA v : ~IsNull(v))
        total == NumSum(present)
    IN  IF present = <<>> THEN Null ELSE Frac(total[2], total[3] * Len(present))

\* Mutant: the means are clipped to non-negative values before they are stored.
GroupMean_clipped(data, by, cols) ==
    LET keys == GroupKeys(data, by)
    IN  [i \in DOMAIN keys |->
            keys[i] \o [j \in 1 .. Len(cols) |->
                           LET m == mean(Column(GroupOf(data, by, keys[i]), cols[j]))
                           IN  IF IsNum(m) /\ m[2] < 0 THEN Num(0) ELSE m]]

\* data.groupby(by)[cols].mean().reset_index()
GroupMean(data, by, cols) ==
    LET keys == GroupKeys(data, by)
    IN  [i \in DOMAIN keys |->
            keys[i] \o [j \in 1 .. Len(cols) |-> mean(Column(GroupOf(data, by, keys[i]), cols[j]))]]

\* data.groupby(by).size().reset_index(name=...)
GroupSize(data, by) ==
    LET keys == GroupKeys(data, by)
    IN  [i \in DOMAIN keys |-> Append(keys[i], Num(Len(GroupOf(data, by, keys[i]))))]

\* The distinct non-NaN cells of a column in order of first appearance.
RECURSIVE Distinct(_, _)
Distinct(vals, seen) ==
    IF vals = <<>> THEN <<>>
    ELSE IF IsNull(Head(vals)) \/ Head(vals) \in seen THEN Distinct(Tail(vals), seen)
    ELSE <<Head(vals)>> \o Distinct(Tail(vals), seen \cup {Head(vals)})

\* data[col].value_counts().reset_index(): dropna=True, most frequent first
\* (equal counts stay in order of first appearance).
value_counts(data, col) ==
    LET vals == Column(data, col)
        keys == Distinct(vals, {})
        counted == [i \in DOMAIN keys |->
                       <<keys[i], Num(Len(SelectSeq(vals, LAMBDA v : v = keys[i])))>>]
    IN  StableSort(counted, <<"desc", 2>>)

\* left.merge(right, left_on=column l, right_on=column r, how="left"): every left
\* row once per right row with the same key, or once padded with NaN.
RECURSIVE merge_left(_, _, _, _, _)
merge_left(left, right, l, r, width) ==
    IF left = <<>> THEN <<>>
    ELSE LET row == Head(left)
             hits == SelectSeq(right, LAMBDA x : x[r] = row[l])
             out == IF hits = <<>> THEN << row \o [j \in 1 .. width |-> Null] >>
                    ELSE [j \in DOMAIN hits |-> row \o hits[j]]
         IN  out \o merge_left(Tail(left), right, l, r, width)

----------------------------------------------------------------------------
(* The named views (aggregation.py:46-90); data is the normalised record set *)

carrier_delays(data) ==
    Table(<<"OP_CARRIER", "CARRIER_DELAY", "WEATHER_DELAY", "NAS_DELAY", "SECURITY_DELAY",
            "LATE_AIRCRAFT_DELAY">>,
          GroupMean(data, <<"OP_CARRIER">>,
                    <<"CARRIER_DELAY", "WEATHER_DELAY", "NAS_DELAY", "SECURITY_DELAY",
                      "LATE_AIRCRAFT_DELAY">>))

monthly_aggregates(data) ==
    Table(<<"Month", "DEP_DELAY", "ARR_DELAY", "CANCELLED">>,
          GroupMean(data, <<"Month">>, <<"DEP_DELAY", "ARR_DELAY", "CANCELLED">>))

state_flight_counts(data) ==
    Table(<<"ORIGIN_STATE", "Flight Count">>, GroupSize(data, <<"ORIGIN_STATE">>))

origin_dest_counts(data) ==
    LET counts == GroupSize(data, <<"ORIGIN", "DEST">>)
    IN  Table(<<"ORIGIN", "DEST", "Flight Count", "ORIGIN_STATE", "DEST_STATE">>,
              [i \in DOMAIN counts |->
                  counts[i] \o << airports_dict("STATE", counts[i][1]),
                                  airports_dict("STATE", counts[i][2]) >>])

airport_delays(data) ==
    Table(<<"ORIGIN", "Average Departure Delay">>,
          GroupMean(data, <<"ORIGIN">>, <<"DEP_DELAY">>))

\* The key data['FL_DATE'].dt.date is the calendar date of the parsed FL_DATE.
daily_delay_trend(data) ==
    Table(<<"FL_DATE", "Average Arrival Delay">>,
          GroupMean(data, <<"FL_DATE">>, <<"ARR_DELAY">>))

cancellation_reasons(data) ==
    Table(<<"Reason", "Count">>, value_counts(data, "CANCELLATION_CODE"))

distance_vs_delay(data) ==
    Table(<<"DISTANCE", "ARR_DELAY", "OP_CARRIER", "Count">>,
          GroupSize(data, <<"DISTANCE", "ARR_DELAY", "OP_CARRIER">>))

airport_bubble_map(data) ==
    Table(<<"ORIGIN", "LATITUDE", "LONGITUDE", "Average Arrival Delay">>,
          GroupMean(data, <<"ORIGIN", "LATITUDE", "LONGITUDE">>, <<"ARR_DELAY">>))

departure_delay_by_hour(data) ==
    Table(<<"Hour", "Average Departure Delay">>,
          GroupMean(data, <<"Hour">>, <<"DEP_DELAY">>))

cancellation_percentage_by_carrier(data) ==
    Table(<<"OP_CARRIER", "Cancellation Rate">>,
          GroupMean(data, <<"OP_CARRIER">>, <<"CANCELLED">>))

\* Mutant: the sort_values call is left out, the rows stay in groupby order.
airlines_unsorted(data) ==
    Table(<<"OP_CARRIER", "ARR_DELAY">>, GroupMean(data, <<"OP_CARRIER">>, <<"ARR_DELAY">>))

airlines_most_delays(data) ==
    Table(<<"OP_CARRIER", "ARR_DELAY">>,
          StableSort(GroupMean(data, <<"OP_CARRIER">>, <<"ARR_DELAY">>), <<"desc", 2>>))

taxi_times(data) ==
    Table(<<"OP_CARRIER", "TAXI_IN", "TAXI_OUT">>,
          GroupMean(data, <<"OP_CARRIER">>, <<"TAXI_IN", "TAXI_OUT">>))

taxi_hourly(data) ==
    Table(<<"Hour", "TAXI_IN", "TAXI_OUT">>,
          GroupMean(data, <<"Hour">>, <<"TAXI_IN", "TAXI_OUT">>))

\* Mutant: the airports are not grouped, one row per airport with count 1.
state_airport_ungrouped ==
    Table(<<"STATE", "Airport Count">>,
          [i \in DOMAIN airports |-> <<airports[i]["STATE"], Num(1)>>])

state_airport_count ==
    Table(<<"STATE", "Airport Count">>, GroupSize(airports, <<"STATE">>))

\* Mutant: the origin region view counts the destination regions.
origin_state_data_of_dest(data) ==
    Table(<<"State", "Origin Count", "STATE", "Airport Count">>,
          merge_left(value_counts(data, "DEST_STATE"), state_airport_count.rows, 1, 1, 2))

origin_state_data(data) ==
    Table(<<"State", "Origin Count", "STATE", "Airport Count">>,
          merge_left(value_counts(data, "ORIGIN_STATE"), state_airport_count.rows, 1, 1, 2))

destination_state_data(data) ==
    Table(<<"State", "Destination Count", "STATE", "Airport Count">>,
          merge_left(value_counts(data, "DEST_STATE"), state_airport_count.rows, 1, 1, 2))

\* The keys of all_datasets in insertion order (aggregation.py:93-111).
ViewOrder ==
    << "carrier_delays", "monthly_aggregates", "state_flight_counts", "origin_dest_counts",
       "airport_delays", "daily_delay_trend", "cancellation_reasons", "distance_vs_delay",
       "airport_bubble_map", "departure_delay_by_hour", "cancellation_percentage_by_carrier",
       "airlines_most_delays", "state_airport_count", "origin_state_data",
       "destination_state_data", "taxi_times", "taxi_hourly" >>

ViewNames == {ViewOrder[i] : i \in DOMAIN ViewOrder}

all_datasets(data) ==
    [name \in ViewNames |->
        CASE name = "carrier_delays"          -> carrier_delays(data)
          [] name = "monthly_aggregates"      -> monthly_aggregates(data)
          [] name = "state_flight_counts"     -> state_flight_counts(data)
          [] name = "origin_dest_counts"      -> origin_dest_counts(data)
          [] name = "airport_delays"          -> airport_delays(data)
          [] name = "daily_delay_trend"       -> daily_delay_trend(data)
          [] name = "cancellation_reasons"    -> cancellation_reasons(data)
          [] name = "distance_vs_delay"       -> distance_vs_delay(data)
          [] name = "airport_bubble_map"      -> airport_bubble_map(data)
          [] name = "departure_delay_by_hour" -> departure_delay_by_hour(data)
          [] name = "cancellation_percentage_by_carrier"
                                              -> cancellation_percentage_by_carrier(data)
          [] name = "airlines_most_delays"    -> airlines_most_delays(data)
          [] name = "state_airport_count"     -> state_airport_count
          [] name = "origin_state_data"       -> origin_state_data(data)
          [] name = "destination_state_data"  -> destination_state_data(data)
          [] name = "taxi_times"              -> taxi_times(data)
          [] name = "taxi_hourly"             -> taxi_hourly(data)]

\* Lines 29-111 of process_yearly_data: the views of one raw yearly record set.
Aggregate(rawdata) == all_datasets(Normalize(rawdata))

----------------------------------------------------------------------------
(* CSV storage: DataFrame.to_csv(index=False) and pd.read_csv *)

\* A stored field is <<"lit", n, d>>, the decimal literal of a number, or
\* <<"txt", s>>, the characters s (NaN is written as the empty field).
to_csv_cell(v) ==
    CASE v[1] = "null" -> <<"txt", "">>
      [] v[1] = "num"  -> <<"lit", v[2], v[3]>>
      [] OTHER         -> <<"txt", v[2]>>

\* df.to_csv(output_path, index=False) (aggregation.py:120)
to_csv(df) ==
    [header |-> df.cols,
     lines  |-> [i \in DOMAIN df.rows |->
                    [j \in DOMAIN df.rows[i] |-> to_csv_cell(df.rows[i][j])]]]

\* The strings read_csv takes for NaN by default.  "None" joined the list in
\* pandas 2.0; the repository pins no version, so the build decides (noneIsNA).
na_values(noneIsNA) ==
    { "", "#N/A", "#N/A N/A", "#NA", "-1.#IND", "-1.#QNAN", "-NaN", "-nan", "1.#IND",
      "1.#QNAN", "<NA>", "N/A", "NA", "NULL", "NaN", "n/a", "nan", "null" }
    \cup (IF noneIsNA THEN {"None"} ELSE {})

read_csv_cell(c, noneIsNA) ==
    IF c[1] = "lit" THEN <<"num", c[2], c[3]>>
    ELSE IF c[2] \in na_values(noneIsNA) THEN Null
    ELSE Str(c[2])

\* pd.read_csv(file_path) of an existing file (Home.py:33, time-series.py:38)
read_csv(file, noneIsNA) ==
    Table(file.header,
          [i \in DOMAIN file.lines |->
              [j \in DOMAIN file.lines[i] |-> read_csv_cell(file.lines[i][j], noneIsNA)]])

----------------------------------------------------------------------------
(* Storage, the loaders' requests and the views the script runs are modelled on *)

\* The file names Home.py and viznew.py request, in order (lines 36-51).
HomeLoads ==
    << "carrier_delays", "monthly_aggregates", "state_flight_counts", "origin_dest_counts",
       "airport_delays", "daily_delay_trend", "cancellation_reasons", "distance_vs_delay",
       "airport_bubble_map", "departure_delay_by_hour", "cancellation_percentage_by_carrier",
       "airlines_most_delays", "state_airport_count", "origin_state_data",
       "destination_state_data", "taxi_times" >>

\* The metric files of pages/time-series.py (lines 21-28).
metrics ==
    << "airport_delays", "carrier_delays", "departure_delay_by_hour", "taxi_hourly",
       "state_flight_counts", "origin_dest_counts" >>

\* The concurrent specification follows NumViews views of the catalogue: the
\* first NumViews of this list (a view both pages request comes first).
FocusOrder ==
    << "carrier_delays", "airport_bubble_map", "daily_delay_trend", "state_flight_counts",
       "taxi_hourly", "cancellation_reasons" >>

Focus == {FocusOrder[i] : i \in 1 .. NumViews}

InFocus(order) == SelectSeq(order, LAMBDA n : n \in Focus)

\* A stored view is addressed by year and name, <<year, name>> standing for the
\* path .../AGG_Datasets/<year>/<name>.csv.  The three places that build the path:
\* load_yearly_data (Home.py:32), load_data (time-series.py:37) and the save loop
\* (aggregation.py:114, 119).  The batch writes under "../datasets/AGG_Datasets/"
\* of its working directory and the pages read "datasets/AGG_Datasets/" of theirs;
\* the two are taken to be the one directory of the deployed layout.
\* Mutant: the save loop leaves the year out of the path, every year writes one directory.
output_path_without_year(year, name) == <<FirstYear, name>>

\* Mutant: the save loop leaves the view name out of the path, every view of a
\* year is written over one file.
output_path_without_name(year, name) == <<year, ViewOrder[1]>>

\* Mutant: the path leaves out the file name, so every request of a year reads one file.
file_path_of_year(year, file_name) == <<year, FocusOrder[1]>>

file_path(year, file_name) == <<year, file_name>>

metric_path(year, metric_file) == <<year, metric_file>>

output_path(year, name) == <<year, name>>

AllKeys == Years \X ViewNames
Keys == Years \X Focus

\* Is there a stored file at the path: files[k] is <<>> or <<the csv>>.
exists(k) == files[k] # <<>>

\* Mutant: a missing file is swallowed and read as an empty table.
read_csv_or_empty(path) ==
    IF exists(path) THEN <<read_csv(files[path][1], build)>> ELSE <<Table(<<>>, <<>>)>>

\* pd.read_csv(file_path) (Home.py:33, time-series.py:38): <<the table>>, or <<>>
\* for the FileNotFoundError a missing file raises.
pd_read_csv(path) == IF exists(path) THEN <<read_csv(files[path][1], build)>> ELSE <<>>

\* Mutant: exist_ok is left out, so an existing year directory raises FileExistsError.
makedirs_new_only(ds, year) == IF year \in ds THEN <<>> ELSE <<ds \cup {year}>>

\* os.makedirs(output_dir, exist_ok=True) (aggregation.py:114-115): <<the
\* directories afterwards>>, or <<>> when the call raises.
makedirs(ds, year) == <<ds \cup {year}>>

\* One iteration of the save loop (aggregation.py:118-121).
write_view(fs, year, name, views) ==
    [fs EXCEPT ![output_path(year, name)] = <<to_csv(views[name])>>]

----------------------------------------------------------------------------
(* The batch process: process_yearly_data, one view file per step *)

MatIdle == [pc |-> "idle", year |-> 0, views |-> <<>>, todo |-> <<>>]

\* Raw files the concurrent specification feeds the batch with.
SampleFiles ==
    { <<RowPool[1], RowPool[2], RowPool[3]>>, <<RowPool[4], RowPool[6]>> }

\* process_yearly_data(file_path, year), lines 28-115: read the raw file,
\* normalise, aggregate, build all_datasets, create the year directory.
ProcessStart(y, data, order) ==
    /\ mat.pc = "idle"
    /\ makedirs(dirs, y) # <<>>
    /\ raw' = [raw EXCEPT !.data = data, !.runs = @ + 1]
    /\ mat' = [pc |-> "write", year |-> y, views |-> <<Aggregate(data)>>, todo |-> order]
    /\ dirs' = makedirs(dirs, y)[1]
    /\ UNCHANGED <<build, proxy, files, cache, lock, run, loads, reads, hist>>

\* lines 118-121, one iteration; the call returns after the last one.
WriteView ==
    /\ mat.pc = "write"
    /\ mat.todo # <<>>
    /\ files' = write_view(files, mat.year, Head(mat.todo), mat.views[1])
    /\ mat' = IF Len(mat.todo) = 1 THEN MatIdle ELSE [mat EXCEPT !.todo = Tail(@)]
    /\ UNCHANGED <<build, proxy, raw, cache, lock, run, loads, reads, hist, batch, dirs>>

\* One call of process_yearly_data from the batch loop (aggregation.py:124-128).
Materialize ==
    /\ raw.runs < MaxMatRuns
    /\ \E y \in Years, data \in SampleFiles : ProcessStart(y, data, InFocus(ViewOrder))
    /\ UNCHANGED batch

----------------------------------------------------------------------------
(* The dashboard pages.  Each script run executes its loads in order; runs of *)
(* different sessions execute concurrently and share the st.cache_data cache. *)

Runs == 1 .. NumRuns

NoRun == [page |-> "none", pc |-> "idle", year |-> 0, file |-> "", todo |-> <<>>, got |-> <<>>]

\* The (year, view_name) arguments of the run's current request.
CurKey(r) ==
    IF run[r].page = "Home" THEN <<run[r].year, Head(run[r].todo)>>
    ELSE <<Head(run[r].todo), run[r].file>>

Requesting(r) == run[r].pc \in {"lookup", "wait", "compute", "read"}

\* Mutant: an entry counts only while the stored file still reads as the entry.
cache_hit_if_fresh(k) == cache[k] # <<>> /\ pd_read_csv(k) = cache[k]

\* @st.cache_data (Home.py:29): the entry of a key, kept without ttl or max_entries.
cache_hit(k) == cache[k] # <<>>

\* Mutant: no compute lock, every caller that missed runs the function body.
lock_never_held(k) == TRUE

\* @st.cache_data (Home.py:29): the compute lock of a key is taken by one caller at a time.
lock_free(k) == k \notin lock

\* The run after its current request returned table t.
Returned(r, t, next) ==
    [run[r] EXCEPT !.got = Append(@, t),
                   !.todo = Tail(@),
                   !.pc = IF Len(run[r].todo) = 1 THEN "done" ELSE next]

\* Series.clip(lower=0) on one cell: a value below 0 becomes 0, NaN stays.
clip_lower_0(v) == IF IsNum(v) /\ v[2] < 0 THEN Num(0) ELSE v

\* df[col] = series: the column at position c replaced by the cells of vals.
AssignColumn(t, c, vals) ==
    Table(t.cols, [i \in DOMAIN t.rows |-> [t.rows[i] EXCEPT ![c] = vals[i]]])

\* What the page body (Home.py:53-414, viznew.py likewise) does to the table it
\* loaded under the name: line 225 clips the bubble map's delay column and
\* line 388 parses the trend's FL_DATE column, both assigned back into the table.
page_body(name, t) ==
    CASE name = "airport_bubble_map" ->
             AssignColumn(t, 4, [i \in DOMAIN t.rows |-> clip_lower_0(t.rows[i][4])])
      [] name = "daily_delay_trend" ->
             AssignColumn(t, 1, [i \in DOMAIN t.rows |-> to_datetime(t.rows[i][1])])
      [] OTHER -> t

\* Mutant: the cache keeps the object it handed out (as st.cache_resource
\* does), so what a caller assigns into the table is in the entry.
cached_value_shared(stored, held) == held

\* @st.cache_data (Home.py:29) stores a serialised copy and hands out copies:
\* the entry after a caller changed the table it holds is the entry as stored.
cached_value(stored, held) == stored

\* A script run of the year holds the table t of the view as its page body
\* left it, and that is not t.
HeldModified(k, t) ==
    /\ page_body(k[2], t) # t
    /\ \E r \in Runs :
          /\ run[r].pc = "shown"
          /\ run[r].year = k[1]
          /\ \E i \in DOMAIN run[r].got : run[r].got[i] = page_body(k[2], t)

\* The history after load_yearly_data returned the cached table t for key k:
\* stale notes that the stored file no longer reads as t, joined that the
\* caller had missed the cache and found the entry once it held the lock,
\* reget that a run held the table in modified form at that time.
Served(k, t, waited) ==
    [hist EXCEPT ![k].ret = @ \cup {t},
                 ![k].stale = @ \/ pd_read_csv(k) # <<t>>,
                 ![k].joined = @ \/ waited,
                 ![k].reget = @ \/ HeldModified(k, t)]

\* Home.py:25-26 (viznew.py likewise): a script run starts with the selected year.
StartHome(r, y, order) ==
    /\ run[r].page = "none"
    /\ order # <<>>
    /\ run' = [run EXCEPT ![r] = [page |-> "Home", pc |-> "lookup", year |-> y, file |-> "",
                                  todo |-> order, got |-> <<>>]]
    /\ UNCHANGED <<build, proxy, raw, mat, files, cache, lock, loads, reads, hist, batch, dirs>>

\* load_yearly_data(year, file_name), Home.py:29-33, the decorator's first look
\* at the cache: a hit returns the entry, a miss goes on to the compute lock.
Lookup(r) ==
    /\ run[r].pc = "lookup"
    /\ LET k == CurKey(r) IN
        IF cache_hit(k)
        THEN /\ run' = [run EXCEPT ![r] = Returned(r, cache[k][1], "lookup")]
             /\ hist' = Served(k, cache[k][1], FALSE)
        ELSE /\ run' = [run EXCEPT ![r].pc = "wait"]
             /\ hist' = hist
    /\ UNCHANGED <<build, proxy, raw, mat, files, cache, lock, loads, reads, batch, dirs>>

\* The decorator takes the key's compute lock and looks at the cache again: an
\* entry written meanwhile is returned, otherwise the function body will run.
Acquire(r) ==
    /\ run[r].pc = "wait"
    /\ LET k == CurKey(r) IN
        /\ lock_free(k)
        /\ IF cache_hit(k)
           THEN /\ run' = [run EXCEPT ![r] = Returned(r, cache[k][1], "lookup")]
                /\ hist' = Served(k, cache[k][1], TRUE)
                /\ lock' = lock
           ELSE /\ run' = [run EXCEPT ![r].pc = "compute"]
                /\ hist' = hist
                /\ lock' = lock \cup {k}
    /\ UNCHANGED <<build, proxy, raw, mat, files, cache, loads, reads, batch, dirs>>

\* Mutant: a failed call is memoised as an empty table.
cache_after_call_memoising_failure(entry, res) ==
    IF res = <<>> THEN <<Table(<<>>, <<>>)>> ELSE res

\* @st.cache_data (Home.py:29) after the function body ran: the returned
\* table is stored; an exception propagates and nothing is stored.
cache_after_call(entry, res) == IF res = <<>> THEN entry ELSE res

\* The body of load_yearly_data (Home.py:32-33) under the lock: read_csv of the
\* path; the table is stored in the cache and returned, FileNotFoundError
\* propagates to the script, which stops.  Either way the lock is released.
Compute(r) ==
    /\ run[r].pc = "compute"
    /\ LET k == CurKey(r)
           path == file_path(k[1], k[2])
           res == pd_read_csv(path)
       IN  /\ lock' = lock \ {k}
           /\ cache' = [cache EXCEPT ![k] = cache_after_call(@, res)]
           /\ IF res # <<>>
              THEN /\ loads' = [loads EXCEPT ![path] = @ + 1]
                   /\ run' = [run EXCEPT ![r] = Returned(r, res[1], "lookup")]
                   /\ hist' = [hist EXCEPT ![k].ret = @ \cup {res[1]}, ![k].loaded = res]
              ELSE /\ run' = [run EXCEPT ![r].pc = "error"]
                   /\ UNCHANGED <<loads, hist>>
    /\ UNCHANGED <<build, proxy, raw, mat, files, reads, batch, dirs>>

\* The rest of the Home script after its loads: the charts are drawn from the
\* tables the run holds, order naming them in load order.
HomeBody(r, order) ==
    /\ run[r].page = "Home"
    /\ run[r].pc = "done"
    /\ run' = [run EXCEPT ![r].pc = "shown",
                          ![r].got = [i \in DOMAIN @ |-> page_body(order[i], @[i])]]
    /\ cache' = [k \in AllKeys |->
                    IF k[1] = run[r].year /\ cache[k] # <<>>
                          /\ \E i \in DOMAIN order : order[i] = k[2]
                    THEN cached_value(cache[k], <<page_body(k[2], cache[k][1])>>)
                    ELSE cache[k]]
    /\ UNCHANGED <<build, proxy, raw, mat, files, lock, loads, reads, hist, batch, dirs>>

\* yearly_data['Year'] = year (time-series.py:39)
with_year(t, year) ==
    Table(Append(t.cols, "Year"), [i \in DOMAIN t.rows |-> Append(t.rows[i], Num(year))])

\* pd.concat([combined_data, yearly_data], ignore_index=True) (time-series.py:40)
concat(combined, t) ==
    IF combined = <<>> THEN <<t>> ELSE << Table(t.cols, combined[1].rows \o t.rows) >>

\* pages/time-series.py:31, 44: the run starts load_data for the selected metric.
StartTimeSeries(r, metric, years) ==
    /\ run[r].page = "none"
    /\ run' = [run EXCEPT ![r] = [page |-> "time-series", pc |-> "read", year |-> 0,
                                  file |-> metric, todo |-> years, got |-> <<>>]]
    /\ UNCHANGED <<build, proxy, raw, mat, files, cache, lock, loads, reads, hist, batch, dirs>>

\* One iteration of load_data's loop (time-series.py:36-40): read_csv of the
\* year's file, uncached; a missing file raises and the script stops.
ReadYear(r) ==
    /\ run[r].pc = "read"
    /\ LET k == CurKey(r)
           path == metric_path(k[1], k[2])
           res == pd_read_csv(path)
       IN  IF res # <<>>
           THEN /\ reads' = [reads EXCEPT ![path] = @ + 1]
                /\ hist' = [hist EXCEPT ![k].direct = @ \cup {res[1]}]
                /\ run' = [run EXCEPT ![r].got = concat(@, with_year(res[1], k[1])),
                                      ![r].todo = Tail(@),
                                      ![r].pc = IF Len(run[r].todo) = 1 THEN "done" ELSE "read"]
           ELSE /\ run' = [run EXCEPT ![r].pc = "error"]
                /\ UNCHANGED <<reads, hist>>
    /\ UNCHANGED <<build, proxy, raw, mat, files, cache, lock, loads, batch, dirs>>

\* range(2009, 2019) of time-series.py:34, cut to the modelled years.
YearSeq == [i \in 1 .. NumYears |-> FirstYear + i - 1]

----------------------------------------------------------------------------
(* The concurrent specification: batch process and dashboard runs interleaved *)

\* No batch script is running: the concurrent specification calls
\* process_yearly_data directly.
NoBatch == [pc |-> "none", input |-> <<>>, todo |-> <<>>, runs |-> 0, cut |-> FALSE]

\* The proxy before its first request: no marker file, nothing launched.
Requests == 1 .. NumRequests

NoProxy ==
    [marker |-> FALSE, launched |-> 0,
     req |-> [q \in Requests |-> [pc |-> "idle", saw |-> "none"]]]

NoHist ==
    [ret |-> {}, direct |-> {}, stale |-> FALSE, joined |-> FALSE, loaded |-> <<>>,
     reget |-> FALSE]

Init ==
    /\ build \in BOOLEAN
    /\ raw = [data |-> <<>>, runs |-> 0]
    /\ mat = MatIdle
    /\ files = [k \in AllKeys |-> <<>>]
    /\ cache = [k \in AllKeys |-> <<>>]
    /\ lock = {}
    /\ run = [r \in Runs |-> NoRun]
    /\ loads = [k \in AllKeys |-> 0]
    /\ reads = [k \in AllKeys |-> 0]
    /\ hist = [k \in AllKeys |-> NoHist]
    /\ batch = NoBatch
    /\ dirs = {}
    /\ proxy = NoProxy

HomeRun == \E r \in Runs, y \in Years : StartHome(r, y, InFocus(HomeLoads))

HomeShow == \E r \in Runs : HomeBody(r, InFocus(HomeLoads))

TimeSeriesRun ==
    \E r \in Runs, i \in DOMAIN InFocus(metrics) : StartTimeSeries(r, InFocus(metrics)[i], YearSeq)

Next ==
    \/ Materialize
    \/ WriteView
    \/ HomeRun
    \/ \E r \in Runs : Lookup(r)
    \/ \E r \in Runs : Acquire(r)
    \/ \E r \in Runs : Compute(r)
    \/ HomeShow
    \/ TimeSeriesRun
    \/ \E r \in Runs : ReadYear(r)

Spec == Init /\ [][Next]_vars

----------------------------------------------------------------------------
(* The aggregation specification: one raw yearly file, drawn from RawFiles,  *)
(* goes through process_yearly_data and is then loaded by a Home script run. *)
(* Nothing runs concurrently, so the script's loads are taken in one step.   *)

\* Home.py:36-51 run to the end: each load_yearly_data call in order, a hit
\* served from the cache, a miss read from storage and cached; a missing file
\* stops the script.
RECURSIVE load_in_order(_, _, _)
load_in_order(st, y, order) ==
    IF order = <<>> THEN st
    ELSE LET k == <<y, Head(order)>>
             path == file_path(y, Head(order))
             res == IF st.cache[k] # <<>> THEN st.cache[k] ELSE pd_read_csv(path)
         IN  IF res = <<>> THEN [st EXCEPT !.todo = order]
             ELSE load_in_order(
                    [st EXCEPT !.loads[path] = IF st.cache[k] # <<>> THEN @ ELSE @ + 1,
                               !.cache[k] = res,
                               !.hist[k].ret = @ \cup {res[1]},
                               !.hist[k].loaded = IF st.cache[k] # <<>> THEN @ ELSE res,
                               !.got = Append(@, res[1])],
                    y, Tail(order))

HomeScript(r, y, order) ==
    /\ run[r].page = "none"
    /\ LET st == load_in_order([cache |-> cache, loads |-> loads, hist |-> hist,
                                got |-> <<>>, todo |-> <<>>], y, order)
       IN  /\ cache' = st.cache
           /\ loads' = st.loads
           /\ hist' = st.hist
           /\ run' = [run EXCEPT ![r] = [page |-> "Home",
                                         pc |-> IF st.todo = <<>> THEN "done" ELSE "error",
                                         year |-> y, file |-> "", todo |-> st.todo,
                                         got |-> st.got]]
    /\ UNCHANGED <<build, proxy, raw, mat, files, lock, reads, batch, dirs>>

InitAgg ==
    /\ build \in BOOLEAN
    /\ raw \in [data : RawFiles, runs : {0}]
    /\ mat = MatIdle
    /\ files = [k \in AllKeys |-> <<>>]
    /\ cache = [k \in AllKeys |-> <<>>]
    /\ lock = {}
    /\ run = [r \in Runs |-> NoRun]
    /\ loads = [k \in AllKeys |-> 0]
    /\ reads = [k \in AllKeys |-> 0]
    /\ hist = [k \in AllKeys |-> NoHist]
    /\ batch = NoBatch
    /\ dirs = {}
    /\ proxy = NoProxy

\* The batch loop's call for the year's file (aggregation.py:124-128).
AggProcess == raw.runs = 0 /\ ProcessStart(FirstYear, raw.data, ViewOrder) /\ UNCHANGED batch

\* A Home script run for the year once the batch process has returned.
AggLoad == raw.runs = 1 /\ mat.pc = "idle" /\ HomeScript(1, FirstYear, HomeLoads)

\* The page body of that script run.
AggShow == HomeBody(1, HomeLoads)

NextAgg == AggProcess \/ WriteView \/ AggLoad \/ AggShow

SpecAgg == InitAgg /\ [][NextAgg]_vars

----------------------------------------------------------------------------
(* The batch specification: the script aggregation.py run over an input      *)
(* directory with one file per year, some of them unusable; a run may be     *)
(* interrupted at any point and the script run again.                        *)

\* The columns process_yearly_data indexes by name (aggregation.py:35-90).
UsedColumns == DOMAIN RowPool[1]

\* A file of the input directory: <<"rows", records>> is a readable file,
\* <<"unreadable">> one read_csv cannot parse, <<"lacks", col>> a readable file
\* without the column col.
InputFiles ==
    {<<"rows", f>> : f \in SampleFiles} \cup {<<"unreadable">>, <<"lacks", "FL_DATE">>}

\* Mutant: the reference lookup is done by indexing, which raises KeyError for
\* a code the catalogue does not have.
raises_on_unmatched_code(file) ==
    \/ file[1] = "unreadable"
    \/ file[1] = "lacks" /\ file[2] \in UsedColumns
    \/ /\ file[1] = "rows"
       /\ \E j \in DOMAIN file[2] :
             IsNull(airports_dict("STATE", file[2][j].ORIGIN))
                 \/ IsNull(airports_dict("STATE", file[2][j].DEST))

\* Does process_yearly_data raise before it writes (aggregation.py:29-111):
\* read_csv raises on an unreadable file (29) and indexing a column the frame
\* does not have raises KeyError (35-90).  Series.map of an unmatched code
\* gives NaN and does not raise (40-43, 58-59).
raises(file) ==
    \/ file[1] = "unreadable"
    \/ file[1] = "lacks" /\ file[2] \in UsedColumns

\* Mutant: the year directory is created on entry, before the file is read.
dirs_at_raise_created_first(ds, year) == ds \cup {year}

\* The directories there are when process_yearly_data raises in lines 29-111:
\* os.makedirs (114) comes after the last view is computed and has not run.
dirs_at_raise(ds, year) == ds

\* The orders os.listdir may return the files of the years in (aggregation.py:124).
RECURSIVE Perms(_)
Perms(S) ==
    IF S = {} THEN {<<>>}
    ELSE UNION {{<<x>> \o t : t \in Perms(S \ {x})} : x \in S}

\* The script is started (python aggregation.py): the loop will visit the files
\* in the order os.listdir gives.
BatchStart ==
    /\ batch.pc \in {"idle", "done", "crashed", "killed"}
    /\ batch.runs < MaxBatchRuns
    /\ \E order \in Perms(Years) :
          batch' = [batch EXCEPT !.pc = "loop", !.todo = order, !.runs = @ + 1]
    /\ UNCHANGED <<build, proxy, raw, mat, files, cache, lock, run, loads, reads, hist, dirs>>

\* One iteration of the loop (aggregation.py:124-128) up to the end of line 115:
\* the call of process_yearly_data for the next file.  An exception it raises
\* is caught nowhere and ends the script.
BatchIterate ==
    /\ batch.pc = "loop"
    /\ mat.pc = "idle"
    /\ batch.todo # <<>>
    /\ LET y == Head(batch.todo)
           file == batch.input[y]
       IN  IF raises(file) \/ makedirs(dirs, y) = <<>>
           THEN /\ batch' = [batch EXCEPT !.pc = "crashed"]
                /\ dirs' = dirs_at_raise(dirs, y)
                /\ UNCHANGED <<build, proxy, raw, mat, files, cache, lock, run, loads, reads, hist>>
           ELSE /\ ProcessStart(y, file[2], InFocus(ViewOrder))
                /\ batch' = [batch EXCEPT !.todo = Tail(@)]

\* The loop has visited every file and the script ends.
BatchEnd ==
    /\ batch.pc = "loop"
    /\ mat.pc = "idle"
    /\ batch.todo = <<>>
    /\ batch' = [batch EXCEPT !.pc = "done"]
    /\ UNCHANGED <<build, proxy, raw, mat, files, cache, lock, run, loads, reads, hist, dirs>>

\* The running script is interrupted (killed, power loss): what it has written
\* stays.  cut notes an interruption between two view files of one year.
Interrupt ==
    /\ batch.pc = "loop"
    /\ batch' = [batch EXCEPT !.pc = "killed",
                              !.cut = @ \/ (mat.pc = "write" /\ exists(<<mat.year, FocusOrder[1]>>))]
    /\ mat' = MatIdle
    /\ UNCHANGED <<build, proxy, raw, files, cache, lock, run, loads, reads, hist, dirs>>

InitBatch ==
    /\ build \in BOOLEAN
    /\ raw = [data |-> <<>>, runs |-> 0]
    /\ mat = MatIdle
    /\ files = [k \in AllKeys |-> <<>>]
    /\ cache = [k \in AllKeys |-> <<>>]
    /\ lock = {}
    /\ run = [r \in Runs |-> NoRun]
    /\ loads = [k \in AllKeys |-> 0]
    /\ reads = [k \in AllKeys |-> 0]
    /\ hist = [k \in AllKeys |-> NoHist]
    /\ batch \in [pc : {"idle"}, input : [Years -> InputFiles], todo : {<<>>}, runs : {0},
                  cut : {FALSE}]
    /\ dirs = {}
    /\ proxy = NoProxy

NextBatch == BatchStart \/ BatchIterate \/ WriteView \/ BatchEnd \/ Interrupt

SpecBatch == InitBatch /\ [][NextBatch]_vars

----------------------------------------------------------------------------
(* Claims about the dataset cache *)


\* C1: any number of requests for one (year, view_name) made by the pages in one
\* process return the same table content and cause at most one read of the
\* stored file.  (Stated as claimed; the time-series page reads uncached.)
C1_SameTableOneRead ==
    \A k \in Keys :
        /\ loads[k] + reads[k] <= 1
        /\ Cardinality(hist[k].ret \cup hist[k].direct) <= 1

\* C2: callers of load_yearly_data that request the same uncached key at the
\* same time cause one storage load, and each of them receives that load's table.
C2_SingleFlight ==
    \A k \in Keys :
        /\ loads[k] <= 1
        /\ hist[k].ret # {} => loads[k] = 1 /\ hist[k].ret = {cache[k][1]}

\* C2 witness: a caller missed the cache, waited for the key's lock and was
\* served the table the lock holder had loaded.
C2_Witness == \E k \in Keys : hist[k].joined /\ loads[k] = 1

\* C3: a request for a (year, view_name) whose file was never materialized
\* returns no table, and the request that reads the missing file ends in the
\* error state of its script run.
C3_MissingIsError ==
    /\ [](\A k \in Keys :
            ~exists(k) => hist[k].ret = {} /\ hist[k].direct = {} /\ cache[k] = <<>>)
    /\ [][\A r \in Runs :
            (run[r].pc \in {"compute", "read"} /\ ~exists(CurKey(r)) /\ run'[r] # run[r])
                => run'[r].pc = "error" /\ run'[r].got = run[r].got]_vars

\* C3 witness: a Home run and a time-series run each stopped in error on a file
\* that is still not there.
C3_Witness ==
    \E r1, r2 \in Runs :
        /\ run[r1].page = "Home" /\ run[r1].pc = "error" /\ ~exists(CurKey(r1))
        /\ run[r2].page = "time-series" /\ run[r2].pc = "error" /\ ~exists(CurKey(r2))

\* C4: a populated cache entry is never removed or replaced, and every table
\* load_yearly_data returns for the key is the entry, also after the batch
\* process has rewritten the file.
C4_NeverInvalidated ==
    [][\A k \in Keys :
          cache[k] # <<>> => cache'[k] = cache[k] /\ hist'[k].ret = {cache[k][1]}]_vars

\* C4 witness: a request was served from the cache while the stored file, rewritten
\* by the batch process, read as another table.
C4_Witness == \E k \in Keys : hist[k].stale /\ exists(k) /\ cache[k] # <<>>

\* C5: a step of load_yearly_data for one key leaves the cache entry and the
\* storage-read counts of every other key as they were.
C5_OnlyThatKey ==
    [][\A r \in Runs :
          (run[r].page = "Home" /\ Requesting(r) /\ run'[r] # run[r])
              => \A k \in AllKeys \ {CurKey(r)} :
                    cache'[k] = cache[k] /\ loads'[k] = loads[k] /\ reads'[k] = reads[k]]_vars

\* C5 witness: one view of a year was loaded and cached while a sibling view of
\* the same year, stored as well, was neither read nor cached.
C5_Witness ==
    \E k1, k2 \in Keys :
        /\ k1[1] = k2[1] /\ k1 # k2
        /\ loads[k1] = 1 /\ cache[k1] # <<>>
        /\ exists(k2) /\ loads[k2] = 0 /\ cache[k2] = <<>>

----------------------------------------------------------------------------
(* Claims about the aggregation, checked under SpecAgg *)

\* The normalised record set and the views of the run in progress; Computed
\* holds when process_yearly_data has built all_datasets and not yet saved any.
Data == Normalize(raw.data)
ViewsNow == mat.views[1]
Computed == mat.pc = "write" /\ Len(mat.todo) = Len(ViewOrder)

\* C6: for every view, writing the table the aggregation produced and loading
\* it through load_yearly_data gives a table with the same rows, columns and
\* values.  (Stated as claimed.)
C6_RoundTrip ==
    \A i \in DOMAIN HomeLoads :
        LET k == <<FirstYear, HomeLoads[i]>> IN
        (run[1].pc = "done" /\ cache[k] # <<>>) => cache[k][1] = Aggregate(raw.data)[HomeLoads[i]]

RECURSIVE SumOfField(_, _, _)
SumOfField(S, data, f) ==
    IF S = {} THEN 0
    ELSE LET j == CHOOSE x \in S : TRUE IN data[j][f][2] + SumOfField(S \ {j}, data, f)

\* The mean views over the two delay fields: name, grouping columns, field, and
\* the column of the view that holds the mean.
DelayMeans ==
    { <<"monthly_aggregates", <<"Month">>, "DEP_DELAY", 2>>,
      <<"monthly_aggregates", <<"Month">>, "ARR_DELAY", 3>>,
      <<"airport_delays", <<"ORIGIN">>, "DEP_DELAY", 2>>,
      <<"daily_delay_trend", <<"FL_DATE">>, "ARR_DELAY", 2>>,
      <<"airport_bubble_map", <<"ORIGIN", "LATITUDE", "LONGITUDE">>, "ARR_DELAY", 4>>,
      <<"departure_delay_by_hour", <<"Hour">>, "DEP_DELAY", 2>>,
      <<"airlines_most_delays", <<"OP_CARRIER">>, "ARR_DELAY", 2>> }

\* C8: in every mean view over arrival or departure delay the value of a group
\* is the sum of the group's non-null values of the field divided by their
\* number; a null delay is left out, not counted as zero.
C8_MeanOfPresent ==
    Computed =>
        \A mv \in DelayMeans :
            \A i \in DOMAIN ViewsNow[mv[1]].rows :
                LET row == ViewsNow[mv[1]].rows[i]
                    key == SubSeq(row, 1, Len(mv[2]))
                    present == {j \in DOMAIN Data :
                                   KeyOf(Data[j], mv[2]) = key /\ ~IsNull(Data[j][mv[3]])}
                    v == row[mv[4]]
                IN  IF present = {} THEN IsNull(v)
                    ELSE /\ IsNum(v)
                         /\ v[2] * Cardinality(present) = SumOfField(present, Data, mv[3]) * v[3]

\* C8 witness: carrier AA with arrival delays 10, 20 and null is reported with mean 15.
C8_Witness ==
    /\ Computed
    /\ raw.data = <<RowPool[1], RowPool[2], RowPool[3]>>
    /\ \E i \in DOMAIN ViewsNow["airlines_most_delays"].rows :
          ViewsNow["airlines_most_delays"].rows[i] = <<Str("AA"), Num(15)>>

\* The views keyed by carrier: name and the column that holds the carrier.
CarrierViews ==
    { <<"carrier_delays", 1>>, <<"cancellation_percentage_by_carrier", 1>>,
      <<"airlines_most_delays", 1>>, <<"taxi_times", 1>>, <<"distance_vs_delay", 3>> }

\* C9: in every view keyed by carrier the carrier values are exactly the
\* distinct carrier codes of the year's normalised records.  (Stated as claimed.)
C9_CarriersKept ==
    Computed =>
        \A cv \in CarrierViews :
            {ViewsNow[cv[1]].rows[i][cv[2]] : i \in DOMAIN ViewsNow[cv[1]].rows}
                = {Data[j].OP_CARRIER : j \in DOMAIN Data}

\* The region-count views: name and the region column of the records they count.
RegionViews ==
    { <<"state_flight_counts", "ORIGIN_STATE">>, <<"origin_state_data", "ORIGIN_STATE">>,
      <<"destination_state_data", "DEST_STATE">> }

RECURSIVE SumOfColumn(_, _)
SumOfColumn(rows, c) ==
    IF rows = <<>> THEN 0 ELSE Head(rows)[c][2] + SumOfColumn(Tail(rows), c)

\* C10: a row whose airport code is not in the reference has a null region, and
\* each region-count view has a group for the null region that counts such rows,
\* so that its counts add up to the year's row count.  (Stated as claimed.)
C10_NullRegionCounted ==
    Computed =>
        /\ \A j \in DOMAIN Data :
              (\A a \in DOMAIN airports : airports[a]["IATA"] # Data[j].ORIGIN)
                  => IsNull(Data[j].ORIGIN_STATE)
        /\ \A rv \in RegionViews :
              LET rows == ViewsNow[rv[1]].rows
                  unmatched == {j \in DOMAIN Data : IsNull(Data[j][rv[2]])}
              IN  /\ SumOfColumn(rows, 2) = Len(Data)
                  /\ unmatched # {} =>
                        \E i \in DOMAIN rows :
                            IsNull(rows[i][1]) /\ rows[i][2] = Num(Cardinality(unmatched))

\* The mean column of the "airlines most delayed" view, row by row.
MostDelayedMeans ==
    [i \in DOMAIN ViewsNow["airlines_most_delays"].rows |->
        ViewsNow["airlines_most_delays"].rows[i][2]]

\* C14 as claimed: of any two consecutive rows of airlines_most_delays the first
\* row's mean arrival delay is >= the second's (a comparison NaN never satisfies).
C14_NonIncreasing ==
    Computed =>
        \A i \in 1 .. Len(MostDelayedMeans) - 1 :
            /\ IsNum(MostDelayedMeans[i]) /\ IsNum(MostDelayedMeans[i + 1])
            /\ ~NumLess(MostDelayedMeans[i], MostDelayedMeans[i + 1])

\* C14: the rows of airlines_most_delays that have a mean are in non-increasing
\* order of it, and the rows whose mean is NaN come after all of them.
C14_NonIncreasingNaNLast ==
    Computed =>
        \A i \in 1 .. Len(MostDelayedMeans) - 1 :
            \/ IsNull(MostDelayedMeans[i + 1])
            \/ /\ IsNum(MostDelayedMeans[i]) /\ IsNum(MostDelayedMeans[i + 1])
               /\ ~NumLess(MostDelayedMeans[i], MostDelayedMeans[i + 1])

\* C14 witness: carrier AA, first in groupby order, has no arrival delay at all
\* and was sorted behind carrier DL, which has one.
C14_Witness ==
    /\ Computed
    /\ \E i \in 1 .. Len(MostDelayedMeans) - 1 :
          /\ ViewsNow["airlines_most_delays"].rows[i][1] = Str("DL")
          /\ ViewsNow["airlines_most_delays"].rows[i + 1][1] = Str("AA")
          /\ IsNum(MostDelayedMeans[i]) /\ IsNull(MostDelayedMeans[i + 1])

\* The fields of a raw record, and those the claim lists as defaulted to 0.
RawFields == DOMAIN RowPool[1]
ZeroDefaulted ==
    { "CARRIER_DELAY", "WEATHER_DELAY", "NAS_DELAY", "SECURITY_DELAY", "LATE_AIRCRAFT_DELAY",
      "TAXI_IN", "TAXI_OUT" }

\* C15: in the normalised records a missing cancellation reason is "None", a
\* missing delay cause or taxi time is 0, any other missing field is still
\* missing, and every field that had a value has that value (FL_DATE as the
\* date it spelled).
C15_ExactDefaults ==
    Computed =>
        \A j \in DOMAIN raw.data : \A f \in RawFields :
            LET before == raw.data[j][f]
                after == Data[j][f]
            IN  IF ~IsNull(before)
                THEN IF f = "FL_DATE" THEN after = <<"date", before[2]>> ELSE after = before
                ELSE IF f = "CANCELLATION_CODE" THEN after = <<"str", "None">>
                ELSE IF f \in ZeroDefaulted THEN after = <<"num", 0, 1>>
                ELSE IsNull(after)

\* C15 witness: a file with a cancelled flight (no delays, no taxi times), a
\* flown flight (no cancellation reason) and a flight without distance.
C15_Witness ==
    /\ Computed
    /\ \E j \in DOMAIN raw.data :
          /\ IsNull(raw.data[j].ARR_DELAY) /\ IsNull(raw.data[j].DEP_DELAY)
          /\ IsNull(raw.data[j].TAXI_IN) /\ IsNull(raw.data[j].NAS_DELAY)
          /\ IsNull(Data[j].ARR_DELAY) /\ IsNull(Data[j].DEP_DELAY)
          /\ Data[j].TAXI_IN = Num(0) /\ Data[j].NAS_DELAY = Num(0)
    /\ \E j \in DOMAIN raw.data :
          IsNull(raw.data[j].CANCELLATION_CODE) /\ Data[j].CANCELLATION_CODE = Str("None")
    /\ \E j \in DOMAIN raw.data :
          IsNull(raw.data[j].DISTANCE) /\ IsNull(Data[j].DISTANCE)

\* C16: the normalised record set has as many rows as the raw yearly record
\* set, rows with unmatched airport codes included; row j of one is row j of
\* the other (same carrier, origin and destination).
C16_SameRowCount ==
    Computed =>
        /\ Len(Data) = Len(raw.data)
        /\ \A j \in DOMAIN raw.data :
              /\ j \in DOMAIN Data
              /\ Data[j].OP_CARRIER = raw.data[j].OP_CARRIER
              /\ Data[j].ORIGIN = raw.data[j].ORIGIN
              /\ Data[j].DEST = raw.data[j].DEST

\* C16 witness: a file of several rows, one with an origin and one with a
\* destination that the catalogue does not have.
C16_Witness ==
    /\ Computed
    /\ Len(raw.data) = MaxRows
    /\ \E j \in DOMAIN Data : IsNull(Data[j].ORIGIN_STATE) /\ IsNull(Data[j].LATITUDE)
    /\ \E j \in DOMAIN Data : IsNull(Data[j].DEST_STATE)

\* The mean-based views: name and grouping columns (the first columns of the view).
MeanViews ==
    { <<"carrier_delays", <<"OP_CARRIER">>>>,
      <<"monthly_aggregates", <<"Month">>>>,
      <<"airport_delays", <<"ORIGIN">>>>,
      <<"daily_delay_trend", <<"FL_DATE">>>>,
      <<"airport_bubble_map", <<"ORIGIN", "LATITUDE", "LONGITUDE">>>>,
      <<"departure_delay_by_hour", <<"Hour">>>>,
      <<"cancellation_percentage_by_carrier", <<"OP_CARRIER">>>>,
      <<"airlines_most_delays", <<"OP_CARRIER">>>>,
      <<"taxi_times", <<"OP_CARRIER">>>>,
      <<"taxi_hourly", <<"Hour">>>> }

\* C19: every row of a mean-based view carries a grouping key that at least
\* one record of the year has; a group without records has no row.
C19_NoEmptyGroups ==
    Computed =>
        \A mv \in MeanViews :
            \A i \in DOMAIN ViewsNow[mv[1]].rows :
                \E j \in DOMAIN Data :
                    \A c \in DOMAIN mv[2] : Data[j][mv[2][c]] = ViewsNow[mv[1]].rows[i][c]

\* C19 witness: a year flown by carrier AA alone from JFK and LGA: the carrier
\* views have the one row of AA and the bubble map the two airports' rows, not
\* the mixed combinations of their coordinates.
C19_Witness ==
    /\ Computed
    /\ Len(Data) >= 2
    /\ Len(ViewsNow["taxi_times"].rows) = 1
    /\ ViewsNow["taxi_times"].rows[1][1] = Str("AA")
    /\ Len(ViewsNow["airport_bubble_map"].rows) = 2
    /\ ViewsNow["airport_bubble_map"].rows[1][1] = Str("JFK")
    /\ ViewsNow["airport_bubble_map"].rows[2][1] = Str("LGA")

\* The (distance, arrival delay, carrier) tuple of a record.
DistanceDelayCarrier(r) == <<r.DISTANCE, r.ARR_DELAY, r.OP_CARRIER>>

\* C20: distance_vs_delay has, for the tuple of every record of the year, a row
\* with the number of records that have exactly that tuple, and its counts add
\* up to the year's row count.  (Stated as claimed.)
C20_EveryRowCounted ==
    Computed =>
        LET rows == ViewsNow["distance_vs_delay"].rows IN
        /\ \A j \in DOMAIN Data :
              \E i \in DOMAIN rows :
                  /\ SubSeq(rows[i], 1, 3) = DistanceDelayCarrier(Data[j])
                  /\ rows[i][4] = Num(Cardinality({n \in DOMAIN Data :
                                      DistanceDelayCarrier(Data[n]) = DistanceDelayCarrier(Data[j])}))
        /\ SumOfColumn(rows, 4) = Len(Data)

----------------------------------------------------------------------------
(* Claims about the batch script, checked under SpecBatch *)

\* The files an uninterrupted run of process_yearly_data stores for year y of
\* the input directory: one per view the run writes.
----------------------------------------------------------------------------
(* The proxy (api/streamlit.py).  app.run() serves with threaded=True, the     *)
(* Flask default: each request runs streamlit_proxy in a thread of its own.   *)

\* line 12: os.path.exists(".streamlit/active")
ProxyCheck(q) ==
    /\ proxy.req[q].pc = "idle"
    /\ proxy' = [proxy EXCEPT !.req[q] = [pc |-> IF proxy.marker THEN "return" ELSE "popen",
                                          saw |-> IF proxy.marker THEN "present" ELSE "absent"]]
    /\ UNCHANGED <<build, raw, mat, files, cache, lock, run, loads, reads, hist, batch, dirs>>

\* line 13: subprocess.Popen(["streamlit", "run", "viznew.py", ...])
ProxyPopen(q) ==
    /\ proxy.req[q].pc = "popen"
    /\ proxy' = [proxy EXCEPT !.launched = @ + 1, !.req[q].pc = "mark"]
    /\ UNCHANGED <<build, raw, mat, files, cache, lock, run, loads, reads, hist, batch, dirs>>

\* line 14: open(".streamlit/active", "w").close()
ProxyMark(q) ==
    /\ proxy.req[q].pc = "mark"
    /\ proxy' = [proxy EXCEPT !.marker = TRUE, !.req[q].pc = "return"]
    /\ UNCHANGED <<build, raw, mat, files, cache, lock, run, loads, reads, hist, batch, dirs>>

\* line 17: the response is returned.
ProxyReturn(q) ==
    /\ proxy.req[q].pc = "return"
    /\ proxy' = [proxy EXCEPT !.req[q].pc = "done"]
    /\ UNCHANGED <<build, raw, mat, files, cache, lock, run, loads, reads, hist, batch, dirs>>

InitProxy ==
    /\ build \in BOOLEAN
    /\ raw = [data |-> <<>>, runs |-> 0]
    /\ mat = MatIdle
    /\ files = [k \in AllKeys |-> <<>>]
    /\ cache = [k \in AllKeys |-> <<>>]
    /\ lock = {}
    /\ run = [r \in Runs |-> NoRun]
    /\ loads = [k \in AllKeys |-> 0]
    /\ reads = [k \in AllKeys |-> 0]
    /\ hist = [k \in AllKeys |-> NoHist]
    /\ batch = NoBatch
    /\ dirs = {}
    /\ proxy = NoProxy

NextProxy ==
    \/ \E q \in Requests : ProxyCheck(q)
    \/ \E q \in Requests : ProxyPopen(q)
    \/ \E q \in Requests : ProxyMark(q)
    \/ \E q \in Requests : ProxyReturn(q)

SpecProxy == InitProxy /\ [][NextProxy]_vars

Usable(y) == batch.input[y][1] = "rows"
StoredAsComputed(y) ==
    \A n \in Focus : files[<<y, n>>] = <<to_csv(Aggregate(batch.input[y][2])[n])>>

\* C11: when the script has ended, by itself or on the exception an unusable
\* file raised, the views of every year whose file is usable have been computed
\* and written.  (Stated as claimed.)
C11_OtherYearsWritten ==
    batch.pc \in {"done", "crashed"} =>
        \A y \in Years : Usable(y) => StoredAsComputed(y)

\* C12: a file whose records have airport codes the catalogue lacks never ends
\* the script: the script stops on an exception only at a file that is
\* unreadable or lacks a column, the unmatched route is kept in the views with
\* a null region, and a run that reaches its end has written that year's views.
C12_JoinMissNoAbort ==
    /\ batch.pc = "crashed" => ~Usable(Head(batch.todo))
    /\ mat.pc = "write" =>
          \A j \in DOMAIN raw.data :
              IsNull(airports_dict("STATE", raw.data[j].ORIGIN)) =>
                  \E i \in DOMAIN mat.views[1]["origin_dest_counts"].rows :
                      LET row == mat.views[1]["origin_dest_counts"].rows[i]
                      IN  row[1] = raw.data[j].ORIGIN /\ row[2] = raw.data[j].DEST /\ IsNull(row[4])
    /\ batch.pc = "done" => \A y \in Years : \A n \in Focus : exists(<<y, n>>)

\* C12 witness: the script ended normally on a directory with a year that has a
\* flight from the unknown airport ZZZ, and that year's views are stored.
C12_Witness ==
    /\ batch.pc = "done"
    /\ \E y \in Years :
          /\ Usable(y)
          /\ \E j \in DOMAIN batch.input[y][2] : batch.input[y][2][j].ORIGIN = Str("ZZZ")
          /\ StoredAsComputed(y)

\* C13: process_yearly_data has the year's directory once it writes; with usable
\* input files no run of the script, first or repeated, stops on an exception;
\* and when a run has reached its end, whatever interrupted runs went before,
\* every year has its directory and, for every view written, the file an
\* uninterrupted run stores, and there is no other file.
C13_RerunCompletes ==
    /\ mat.pc = "write" => mat.year \in dirs
    /\ (\A y \in Years : Usable(y)) => batch.pc # "crashed"
    /\ batch.pc = "done" =>
          /\ \A y \in Years : y \in dirs /\ StoredAsComputed(y)
          /\ \A k \in AllKeys \ Keys : ~exists(k)

\* C13 witness: a run was interrupted between two view files of a year, and the
\* script, run again, reached its end with every file as computed.
C13_Witness ==
    /\ batch.pc = "done"
    /\ batch.cut
    /\ batch.runs = 2
    /\ \A y \in Years : StoredAsComputed(y)

\* C18: the path the save loop writes next for one year is not an output path
\* of any other year; a step of the save loop for one year leaves the files of
\* every other year as they were; and once the script has reached its end the
\* stored files of each year are those computed from that year's input,
\* whatever the order of the visits.
C18_YearsDisjoint ==
    /\ [](mat.pc = "write" =>
              \A y \in Years \ {mat.year} : \A n \in ViewNames :
                  output_path(mat.year, Head(mat.todo)) # output_path(y, n))
    /\ [](batch.pc = "done" => \A y \in Years : StoredAsComputed(y))
    /\ [][mat.pc = "write" =>
              \A k \in AllKeys : k[1] # mat.year => files'[k] = files[k]]_vars

\* C18 witness: the script reached its end on a directory whose two first years
\* have different records, and their stored views differ accordingly.
C18_Witness ==
    /\ batch.pc = "done"
    /\ batch.input[FirstYear] # batch.input[FirstYear + 1]
    /\ StoredAsComputed(FirstYear) /\ StoredAsComputed(FirstYear + 1)
    /\ files[<<FirstYear, FocusOrder[1]>>] # files[<<FirstYear + 1, FocusOrder[1]>>]

----------------------------------------------------------------------------
(* Claims about the pages' use of the loaded tables *)

\* C17: when the Home script has run to its end, every table it holds is the
\* table load_yearly_data returned for it, column for column and row for row.
\* (Stated as claimed; checked under SpecAgg.)
C17_TablesReadOnly ==
    run[1].pc = "shown" =>
        \A i \in DOMAIN run[1].got :
            run[1].got[i] = cache[<<run[1].year, HomeLoads[i]>>][1]

\* The views grouped by the hour bucket.
HourlyViews == {"departure_delay_by_hour", "taxi_hourly"}

\* C21: the hour bucket h of a record with scheduled departure time t is the
\* floor of t / 100 (100 * h <= t < 100 * (h + 1)), whatever t is, and each
\* hourly view has a row for that hour.
C21_HourUnclamped ==
    Computed =>
        \A j \in DOMAIN raw.data :
            LET t == raw.data[j].CRS_DEP_TIME
                h == Data[j].Hour
            IN  ~IsNull(t) =>
                    /\ IsNum(h) /\ h[3] = 1
                    /\ 100 * h[2] <= t[2] /\ t[2] < 100 * (h[2] + 1)
                    /\ \A name \in HourlyViews :
                          \E i \in DOMAIN ViewsNow[name].rows : ViewsNow[name].rows[i][1] = h

\* C21 witness: a flight scheduled at 2400 is in hour 24, and both hourly views
\* have a row for hour 24.
C21_Witness ==
    /\ Computed
    /\ \E j \in DOMAIN raw.data :
          raw.data[j].CRS_DEP_TIME = Num(2400) /\ Data[j].Hour = Num(24)
    /\ \A name \in HourlyViews :
          \E i \in DOMAIN ViewsNow[name].rows : ViewsNow[name].rows[i][1] = Num(24)

\* The batch process has returned from the year's call: every view file is written.
Written == raw.runs = 1 /\ mat.pc = "idle"

\* The groups of a mean view whose non-null values of the field sum to less
\* than zero: the set of their keys.
NegativeGroups(mv) ==
    { key \in {KeyOf(Data[j], mv[2]) : j \in DOMAIN Data} :
        /\ \A c \in DOMAIN key : ~IsNull(key[c])
        /\ LET present == {j \in DOMAIN Data :
                              KeyOf(Data[j], mv[2]) = key /\ ~IsNull(Data[j][mv[3]])}
           IN  present # {} /\ SumOfField(present, Data, mv[3]) < 0 }

BubbleMap == CHOOSE i \in DOMAIN HomeLoads : HomeLoads[i] = "airport_bubble_map"

\* C22: a group whose non-null delays sum to less than zero has a negative
\* mean in the stored view file and in the table the home page loads from it;
\* only after the page body ran is the value the page holds clipped to zero.
C22_StoredUnclipped ==
    Written =>
        /\ \A mv \in DelayMeans : \A key \in NegativeGroups(mv) :
              LET file == files[output_path(FirstYear, mv[1])][1]
              IN  \E i \in DOMAIN file.lines :
                    /\ \A c \in DOMAIN key : file.lines[i][c] = to_csv_cell(key[c])
                    /\ file.lines[i][mv[4]][1] = "lit"
                    /\ file.lines[i][mv[4]][2] < 0
        /\ run[1].pc \in {"done", "shown"} =>
              \A key \in NegativeGroups(<<"airport_bubble_map", <<"ORIGIN", "LATITUDE", "LONGITUDE">>,
                                            "ARR_DELAY", 4>>) :
                  \E i \in DOMAIN run[1].got[BubbleMap].rows :
                      LET row == run[1].got[BubbleMap].rows[i]
                      IN  /\ row[1] = key[1]
                          /\ IF run[1].pc = "done" THEN row[4][2] < 0 ELSE row[4] = Num(0)

\* C22 witness: an airport with a negative mean arrival delay is stored
\* negative while the page that loaded it shows zero.
C22_Witness ==
    /\ Written
    /\ run[1].pc = "shown"
    /\ \E i \in DOMAIN files[output_path(FirstYear, "airport_bubble_map")][1].lines :
          LET line == files[output_path(FirstYear, "airport_bubble_map")][1].lines[i]
          IN  /\ line[4][1] = "lit" /\ line[4][2] < 0
              /\ \E k \in DOMAIN run[1].got[BubbleMap].rows :
                    /\ run[1].got[BubbleMap].rows[k][1] = Str(line[1][2])
                    /\ run[1].got[BubbleMap].rows[k][4] = Num(0)

\* The number of leading columns of a view that hold its grouping key.
KeyWidth(name) ==
    CASE name = "origin_dest_counts" -> 2
      [] name \in {"distance_vs_delay", "airport_bubble_map"} -> 3
      [] OTHER -> 1

\* C23: in every view no two rows have the same grouping key (or key tuple);
\* this includes the region views after the left join with the airports-per-region counts.
C23_KeysUnique ==
    Computed =>
        \A name \in ViewNames :
            \A i, k \in DOMAIN ViewsNow[name].rows :
                SubSeq(ViewsNow[name].rows[i], 1, KeyWidth(name))
                    = SubSeq(ViewsNow[name].rows[k], 1, KeyWidth(name)) => i = k

\* C23 witness: the origin region view holds two regions, one of them a region
\* with two airports, joined with its airport count in a single row.
C23_Witness ==
    /\ Computed
    /\ Len(ViewsNow["origin_state_data"].rows) >= 2
    /\ \E i \in DOMAIN ViewsNow["origin_state_data"].rows :
          /\ ViewsNow["origin_state_data"].rows[i][1] = Str("NY")
          /\ ViewsNow["origin_state_data"].rows[i][4] = Num(2)

\* The region -> count pairs a view holds in its first two columns.
RegionCounts(name) ==
    { <<ViewsNow[name].rows[i][1], ViewsNow[name].rows[i][2]>> :
        i \in DOMAIN ViewsNow[name].rows }

\* C26: the state-flight-counts view and the origin-region view of one year
\* hold the same regions, and a region's "Flight Count" in the first equals
\* its "Origin Count" in the second.
C26_RegionCountsAgree ==
    Computed =>
        /\ RegionCounts("state_flight_counts") = RegionCounts("origin_state_data")
        /\ Len(ViewsNow["state_flight_counts"].rows) = Len(ViewsNow["origin_state_data"].rows)

\* C26 witness: the views hold two origin regions with different counts.
C26_Witness ==
    /\ Computed
    /\ \E p, q \in RegionCounts("origin_state_data") : p[1] # q[1] /\ p[2] # q[2]

\* The raw records of the year that carry no cancellation reason.
NoReason == {j \in DOMAIN raw.data : IsNull(raw.data[j]["CANCELLATION_CODE"])}

\* The rows of the cancellation-reason view for the sentinel "None".
SentinelRows ==
    {i \in DOMAIN ViewsNow["cancellation_reasons"].rows :
        ViewsNow["cancellation_reasons"].rows[i][1] = Str("None")}

\* C27: the counts of the cancellation-reason view sum to the number of the
\* year's records, and the count of the sentinel group is the number of
\* records that had no reason.
C27_EveryRowCountedOnce ==
    Computed =>
        /\ SumOfColumn(ViewsNow["cancellation_reasons"].rows, 2) = Len(raw.data)
        /\ IF NoReason = {} THEN SentinelRows = {}
           ELSE \E i \in SentinelRows :
                   /\ SentinelRows = {i}
                   /\ ViewsNow["cancellation_reasons"].rows[i][2] = Num(Cardinality(NoReason))

\* C27 witness: a year with two records without a reason and one with a reason.
C27_Witness ==
    /\ Computed
    /\ Cardinality(NoReason) = 2
    /\ Len(raw.data) = 3
    /\ Len(ViewsNow["cancellation_reasons"].rows) = 2

C25_FailureWritesNothing ==
    [][ /\ (batch.pc = "loop" /\ batch'.pc = "crashed") => (files' = files /\ dirs' = dirs)
        /\ dirs' # dirs =>
              /\ mat'.pc = "write"
              /\ DOMAIN mat'.views[1] = ViewNames
              /\ dirs' = dirs \cup {mat'.year}
        /\ files' # files =>
              /\ mat.pc = "write"
              /\ DOMAIN mat.views[1] = ViewNames
              /\ mat.year \in dirs ]_vars

\* C25 witness: the script has stopped on a file that raised, after it wrote
\* another year; the year of the failed file has no directory and no file.
C25_Witness ==
    /\ batch.pc = "crashed"
    /\ batch.todo # <<>>
    /\ LET y == Head(batch.todo)
       IN  /\ raises(batch.input[y])
           /\ y \notin dirs
           /\ \A n \in Focus : ~exists(<<y, n>>)
           /\ \E y2 \in Years \ {y} : y2 \in dirs /\ \A n \in Focus : exists(<<y2, n>>)

\* C28: what the page body assigns into a table it got from load_yearly_data
\* is not in the cache: the step of the page body leaves every entry as it
\* was, an entry is the table that was read from storage, and a get that comes
\* after a run modified its table returns that table.
C28_EntryKeepsLoaded ==
    /\ [](\A k \in Keys :
            /\ cache[k] # <<>> => cache[k] = hist[k].loaded
            /\ hist[k].reget => hist[k].ret = {hist[k].loaded[1]})
    /\ [][\A r \in Runs : (run[r].pc = "done" /\ run'[r].pc = "shown") => cache' = cache]_vars

\* C28 witness: a run clipped a negative mean of the bubble map it holds, and a
\* get of the same key that came later returned the table with the negative mean.
C28_Witness ==
    \E k \in Keys :
        /\ k[2] = "airport_bubble_map"
        /\ hist[k].reget
        /\ \E i \in DOMAIN cache[k][1].rows : cache[k][1].rows[i][4][2] < 0
        /\ \E r \in Runs :
              /\ run[r].pc = "shown"
              /\ run[r].year = k[1]
              /\ \E j \in DOMAIN run[r].got :
                    /\ run[r].got[j] # cache[k][1]
                    /\ run[r].got[j] = page_body(k[2], cache[k][1])

\* C29: a call of load_yearly_data that fails on an absent file stores nothing
\* in the cache, so an entry exists only after a load from storage; a call
\* that runs the function body once the file is there does not fail, it
\* returns the table the file reads as and stores it.
C29_FailureNotCached ==
    /\ [](\A k \in Keys : cache[k] # <<>> => loads[k] >= 1)
    /\ [][\A r \in Runs :
            (run[r].page = "Home" /\ run[r].pc = "compute" /\ run'[r] # run[r]) =>
                LET k == CurKey(r)
                    path == file_path(k[1], k[2])
                IN  IF exists(path)
                    THEN /\ run'[r].pc # "error"
                         /\ cache'[k] = <<read_csv(files[path][1], build)>>
                         /\ run'[r].got = Append(run[r].got, cache'[k][1])
                    ELSE /\ run'[r].pc = "error"
                         /\ cache[k] = <<>>
                         /\ cache' = cache]_vars

\* C29 witness: a run stopped on the absent file of a key; the view was
\* materialized afterwards and another run of the same process got the table.
C29_Witness ==
    \E r1, r2 \in Runs :
        /\ run[r1].page = "Home" /\ run[r1].pc = "error"
        /\ run[r2].page = "Home" /\ run[r2].year = run[r1].year
        /\ cache[CurKey(r1)] # <<>>
        /\ cache[CurKey(r1)] = pd_read_csv(CurKey(r1))
        /\ \E j \in DOMAIN run[r2].got : run[r2].got[j] = cache[CurKey(r1)][1]

\* C30: whatever the requests and their interleaving, the proxy launches the
\* Streamlit subprocess at most once, and a request that found the marker
\* present found it after a subprocess was launched.  (Stated as claimed.)
C30_LaunchedOnce ==
    /\ proxy.launched <= 1
    /\ (\E q \in Requests : proxy.req[q].saw = "present") => proxy.launched >= 1

====
